---- MODULE Spec2Model ----
(***************************************************************************)
(* Model of the analysis service of forecast-project: the model trainer    *)
(* (model_trainer.py), the forecaster (forecaster.py) and the investment   *)
(* strategist (strategist.py).                                             *)
(*                                                                         *)
(* Numbers.  Prices in a forecast path are integers.  Every value the code *)
(* computes from them (cash, shares, profit, RMSE) is an IEEE double; it   *)
(* is modelled as an exact extended rational [n, d, np]:                   *)
(*     d > 0          the finite value n/d (in lowest terms)               *)
(*     d = 0, n = 1   +inf      d = 0, n = -1   -inf      d = 0, n = 0  nan *)
(* np tells whether the value is a numpy scalar (np.float64 / np.int64) or *)
(* a plain Python number: the two differ on division by zero (numpy gives  *)
(* inf/nan with a warning, Python raises ZeroDivisionError).  Rounding,    *)
(* overflow and underflow of doubles are not modelled.                     *)
(***************************************************************************)
EXTENDS Integers, Sequences, FiniteSets, TLC

(***************************************************************************)
(* Extended rational arithmetic                                            *)
(***************************************************************************)
Abs(x) == IF x < 0 THEN -x ELSE x

Sgn(x) == IF x < 0 THEN -1 ELSE IF x > 0 THEN 1 ELSE 0

RECURSIVE Gcd(_, _)
Gcd(a, b) == IF b = 0 THEN a ELSE Gcd(b, a % b)

\* n/d in lowest terms; d = 0 gives the infinities and nan
Norm(n, d, isnp) ==
    IF d = 0 THEN [n |-> Sgn(n), d |-> 0, np |-> isnp]
    ELSE IF n = 0 THEN [n |-> 0, d |-> 1, np |-> isnp]
    ELSE LET g == Gcd(Abs(n), d) IN [n |-> n \div g, d |-> d \div g, np |-> isnp]

PyNum(i) == [n |-> i, d |-> 1, np |-> FALSE]

NpNum(i) == [n |-> i, d |-> 1, np |-> TRUE]

Num(i, isnp) == [n |-> i, d |-> 1, np |-> isnp]

IsNaN(x) == x.d = 0 /\ x.n = 0

IsInf(x) == x.d = 0 /\ x.n # 0

IsFinite(x) == x.d > 0

\* x == 0 (False for nan and the infinities)
IsZero(x) == x.d > 0 /\ x.n = 0

\* x > 0 (False for nan)
GtZero(x) == x.n > 0

\* a == b as doubles (nan equals nothing)
NumEq(a, b) == ~IsNaN(a) /\ ~IsNaN(b) /\ a.n = b.n /\ a.d = b.d

\* a < b as doubles
NumLt(a, b) ==
    IF IsNaN(a) \/ IsNaN(b) THEN FALSE
    ELSE IF a.d = 0 /\ b.d = 0 THEN a.n < b.n
    ELSE a.n * b.d < b.n * a.d

Mul(a, b) == Norm(a.n * b.n, a.d * b.d, a.np \/ b.np)

Sub(a, b) ==
    IF IsNaN(a) \/ IsNaN(b) THEN Norm(0, 0, a.np \/ b.np)
    ELSE IF a.d = 0 /\ b.d = 0 THEN
        (IF a.n = b.n THEN Norm(0, 0, a.np \/ b.np) ELSE Norm(a.n, 0, a.np \/ b.np))
    ELSE Norm(a.n * b.d - b.n * a.d, a.d * b.d, a.np \/ b.np)

Add(a, b) == Sub(a, [b EXCEPT !.n = -b.n])

\* a / b raises ZeroDivisionError: both operands are Python numbers and b == 0
DivRaises(a, b) == ~a.np /\ ~b.np /\ IsZero(b)

\* a / b where it does not raise (numpy: x/0 = +-inf, 0/0 = nan; the zero of
\* an integer price is the positive zero)
Div(a, b) ==
    LET s == IF IsZero(b) THEN 1 ELSE Sgn(b.n)
    IN  Norm(a.n * b.d * s, a.d * Abs(b.n), a.np \/ b.np)

(***************************************************************************)
(* strategist.py: InvestmentStrategist                                     *)
(* A forecast path is a sequence of integer prices; day i of the code      *)
(* (0-based) is element i+1 of the sequence.  A point is <<day, price>>, a *)
(* signal is <<action, day, price>>.                                       *)
(***************************************************************************)
DefaultWindow == 3

PriceAt(prices, i) == prices[i + 1]

\* prices[i] against prices[i-window:i] and prices[i+1:i+window+1].
\* the days of the slice prices[lo:hi], 0 <= lo: a slice stops at the end of
\* the array
SliceDays(prices, lo, hi) == {j \in lo..(hi - 1) : j < Len(prices)}

\* a minimum must be strictly below its neighbours
IsLocalMin_Strict(prices, i, window) ==
    /\ \A j \in SliceDays(prices, i - window, i) :
          PriceAt(prices, i) < PriceAt(prices, j)
    /\ \A j \in SliceDays(prices, i + 1, i + window + 1) :
          PriceAt(prices, i) < PriceAt(prices, j)

IsLocalMin(prices, i, window) ==
    /\ \A j \in SliceDays(prices, i - window, i) :
          PriceAt(prices, i) <= PriceAt(prices, j)
    /\ \A j \in SliceDays(prices, i + 1, i + window + 1) :
          PriceAt(prices, i) <= PriceAt(prices, j)

\* a maximum is compared with the days before it only
IsLocalMax_BeforeOnly(prices, i, window) ==
    \A j \in SliceDays(prices, i - window, i) :
        PriceAt(prices, i) >= PriceAt(prices, j)

IsLocalMax(prices, i, window) ==
    /\ \A j \in SliceDays(prices, i - window, i) :
          PriceAt(prices, i) >= PriceAt(prices, j)
    /\ \A j \in SliceDays(prices, i + 1, i + window + 1) :
          PriceAt(prices, i) >= PriceAt(prices, j)

\* range(start, stop) as a sequence
Range(start, stop) ==
    IF stop <= start THEN <<>> ELSE [k \in 1..(stop - start) |-> start + k - 1]

\* the loop runs over range(window, days): the last days are examined too
find_local_extrema_ToEnd(prices, window) ==
    LET days == Len(prices)
        pts(Test(_)) ==
            LET ds == SelectSeq(Range(window, days), Test)
            IN  [k \in 1..Len(ds) |-> <<ds[k], PriceAt(prices, ds[k])>>]
    IN  [buy_points  |-> pts(LAMBDA i : IsLocalMin(prices, i, window)),
         sell_points |-> pts(LAMBDA i : IsLocalMax(prices, i, window))]

\* find_local_extrema: [buy_points, sell_points]
find_local_extrema(prices, window) ==
    LET days == Len(prices)
        pts(Test(_)) ==
            LET ds == SelectSeq(Range(window, days - window), Test)
            IN  [k \in 1..Len(ds) |-> <<ds[k], PriceAt(prices, ds[k])>>]
    IN  [buy_points  |-> pts(LAMBDA i : IsLocalMin(prices, i, window)),
         sell_points |-> pts(LAMBDA i : IsLocalMax(prices, i, window))]

InList(x, list) == \E k \in 1..Len(list) : list[k] = x

\* sorted(points, key=lambda x: x[0]): a stable sort by day.  Element k goes
\* after the elements of a smaller day and the earlier elements of the same day.
SortByDay(points) ==
    LET n == Len(points)
        rank(k) == Cardinality({j \in 1..n :
                       \/ points[j][1] < points[k][1]
                       \/ (points[j][1] = points[k][1] /\ j < k)}) + 1
    IN  [r \in 1..n |-> points[CHOOSE k \in 1..n : rank(k) = r]]

\* the state of the loop of generate_trading_signals before the first point
\* (last_buy_price and last_buy_day are written and never read: left out)
SignalInit == [signals |-> <<>>, current_action |-> "hold"]

\* a buy point is taken whatever the current action is
SignalStep_AlwaysBuy(st, pt, buy_points, sell_points) ==
    IF InList(pt, buy_points)
    THEN [signals |-> Append(st.signals, <<"buy", pt[1], pt[2]>>),
          current_action |-> "buy"]
    ELSE IF InList(pt, sell_points) /\ st.current_action = "buy"
    THEN [signals |-> Append(st.signals, <<"sell", pt[1], pt[2]>>),
          current_action |-> "sell"]
    ELSE st

\* one iteration of the loop of generate_trading_signals, on point pt
SignalStep(st, pt, buy_points, sell_points) ==
    IF InList(pt, buy_points) /\ st.current_action # "buy"
    THEN [signals |-> Append(st.signals, <<"buy", pt[1], pt[2]>>),
          current_action |-> "buy"]
    ELSE IF InList(pt, sell_points) /\ st.current_action = "buy"
    THEN [signals |-> Append(st.signals, <<"sell", pt[1], pt[2]>>),
          current_action |-> "sell"]
    ELSE st

\* the locals of calculate_profit before the first signal; raised: an exception
\* has left the method
ProfitInit(investment_amount) ==
    [cash |-> PyNum(investment_amount), shares |-> PyNum(0),
     transactions |-> <<>>, raised |-> FALSE]

\* only whole shares are bought
SharesBought_Whole(cash, price) ==
    LET q == Div(cash, price) IN
    IF IsFinite(q) THEN Norm(q.n \div q.d, 1, q.np) ELSE q

\* shares_bought = cash / price
SharesBought(cash, price) == Div(cash, price)

\* one iteration of the loop of calculate_profit, on signal sig whose price is a
\* numpy scalar (sig_np) or a Python number
ProfitStep(st, sig, sig_np) ==
    LET price == Num(sig[3], sig_np) IN
    IF st.raised THEN st
    ELSE IF sig[1] = "buy" /\ GtZero(st.cash) THEN
        IF DivRaises(st.cash, price) THEN [st EXCEPT !.raised = TRUE]
        ELSE LET shares_bought == SharesBought(st.cash, price)
             IN  [cash |-> PyNum(0),
                  shares |-> Add(st.shares, shares_bought),
                  transactions |-> Append(st.transactions,
                                     [op |-> "buy", day |-> sig[2], price |-> sig[3]]),
                  raised |-> FALSE]
    ELSE IF sig[1] = "sell" /\ GtZero(st.shares) THEN
        [cash |-> Mul(st.shares, price),
         shares |-> PyNum(0),
         transactions |-> Append(st.transactions,
                            [op |-> "sell", day |-> sig[2], price |-> sig[3]]),
         raised |-> FALSE]
    ELSE st

\* the final valuation of calculate_profit: shares still held are valued at
\* forecast_prices[-1]; the local shares is left as it is
ProfitFinal(st, prices, price_np) ==
    IF st.raised \/ ~GtZero(st.shares) THEN st
    ELSE IF prices = <<>> THEN [st EXCEPT !.raised = TRUE]
    ELSE LET final_price == prices[Len(prices)]
         IN  [st EXCEPT !.cash = Mul(st.shares, Num(final_price, price_np)),
                        !.transactions = Append(st.transactions,
                            [op |-> "final_sell", day |-> Len(prices),
                             price |-> final_price])]

NoInfo == [initial_investment |-> PyNum(0), final_value |-> PyNum(0),
           profit |-> PyNum(0), profit_percent |-> PyNum(0), transactions |-> <<>>]

\* profit, profit_percent and the profit_info dictionary from the final cash
ProfitInfo(cash, transactions, investment_amount) ==
    LET amount == PyNum(investment_amount)
        profit == Sub(cash, amount)
    IN  IF DivRaises(profit, amount)
        THEN [raised |-> TRUE, info |-> NoInfo]
        ELSE [raised |-> FALSE,
              info |-> [initial_investment |-> amount,
                        final_value |-> cash,
                        profit |-> profit,
                        profit_percent |-> Mul(Div(profit, amount), PyNum(100)),
                        transactions |-> transactions]]

\* _generate_fallback_recommendations: buy and hold
generate_fallback_recommendations(prices, price_np, investment_amount) ==
    LET failed == [raised |-> TRUE, path |-> "fallback", text |-> "none",
                   info |-> NoInfo]
    IN
    IF prices = <<>> THEN failed
    ELSE LET initial_price == Num(prices[1], price_np)
             final_price   == Num(prices[Len(prices)], price_np)
             amount        == PyNum(investment_amount)
         IN  IF DivRaises(amount, initial_price) THEN failed
             ELSE LET shares      == Div(amount, initial_price)
                      final_value == Mul(shares, final_price)
                      r == ProfitInfo(final_value,
                               << [op |-> "buy", day |-> 0, price |-> prices[1]],
                                  [op |-> "sell", day |-> Len(prices),
                                   price |-> prices[Len(prices)]] >>,
                               investment_amount)
                  IN  IF r.raised THEN failed
                      ELSE [raised |-> FALSE, path |-> "fallback",
                            text |-> "buy_and_hold", info |-> r.info]

(***************************************************************************)
(* model_trainer.py: ModelTrainer.train_and_select_best                    *)
(* A fitted model is named by its class; "None" is Python's None.  What a  *)
(* training function does inside its try block is an outcome: ok (fit and  *)
(* predict succeeded, with the RMSE on the test set) or not ok (raised).   *)
(***************************************************************************)
Inf == [n |-> 1, d |-> 0, np |-> FALSE]

models_to_train == <<"Random Forest", "Ridge Regression", "ARIMA", "LSTM">>

ModelClass(model_name) ==
    CASE model_name = "Random Forest"    -> "RandomForestRegressor"
      [] model_name = "Ridge Regression" -> "Ridge"
      [] model_name = "ARIMA"            -> "ARIMAResultsWrapper"
      [] model_name = "LSTM"             -> "LinearRegression"

\* the tuple a training function returns: train_random_forest,
\* train_ridge_regression and train_arima return (model, rmse, mape),
\* train_simple_lstm returns (model, rmse, mape, label)
TrainReturn(model_name, outcome) ==
    IF model_name = "LSTM"
    THEN IF outcome.ok
         THEN <<ModelClass(model_name), outcome.rmse, "mape",
                "Linear Regression (LSTM placeholder)">>
         ELSE <<"None", Inf, Inf, "Failed">>
    ELSE IF outcome.ok
         THEN <<ModelClass(model_name), outcome.rmse, "mape">>
         ELSE <<"None", Inf, Inf>>

\* best_model, best_rmse, best_model_name and self.results before the loop
TrainerInit ==
    [best_model |-> "None", best_rmse |-> Inf, best_model_name |-> "",
     results |-> <<>>]

\* one iteration of the loop of train_and_select_best: lines 150-163.
\* "model, rmse, mape = train_func()" raises ValueError on a tuple of four,
\* which the except clause swallows: the candidate is skipped.
TrainerStep(st, model_name, ret) ==
    IF Len(ret) # 3 THEN st
    ELSE LET better == ret[1] # "None" /\ NumLt(ret[2], st.best_rmse)
         IN  [best_model |-> IF better THEN ret[1] ELSE st.best_model,
              best_rmse |-> IF better THEN ret[2] ELSE st.best_rmse,
              best_model_name |-> IF better THEN model_name ELSE st.best_model_name,
              results |-> Append(st.results, <<model_name, ret[2], ret[3]>>)]

\* the fallback is forgotten
TrainerFinish_NoFallback(st) ==
    [model |-> st.best_model, rmse |-> st.best_rmse, name |-> st.best_model_name]

\* lines 165-173: the fallback and the returned triple
TrainerFinish(st) ==
    IF st.best_model = "None"
    THEN [model |-> "None", rmse |-> Inf, name |-> "Persistence"]
    ELSE [model |-> st.best_model, rmse |-> st.best_rmse,
          name |-> st.best_model_name]

(***************************************************************************)
(* model_trainer.py: the rows each candidate is fitted and scored on.      *)
(* A row of self.df is named by its position in time, 0 .. len(df) - 1;    *)
(* a table is the sequence of the rows it keeps, in order.                 *)
(***************************************************************************)
\* load_data gives the trainer no series shorter than this
MinRows == 100

\* for i in range(1, 31) of prepare_ml_data
TrainLags == 30

\* test_size = 0.2, as the fraction TestSizeNum / TestSizeDen
TestSizeNum == 1

TestSizeDen == 5

\* df['Close'].shift(k) is NaN at row i: there is no row i - k
ShiftIsNaN(n, i, k) == i - k < 0 \/ i - k > n - 1

\* dropna in prepare_ml_data: the rows whose lag_1 .. lag_30 and target
\* (shift(-1)) are all present
ml_rows(n) ==
    SelectSeq(Range(0, n),
              LAMBDA i : /\ \A k \in 1..TrainLags : ~ShiftIsNaN(n, i, k)
                         /\ ~ShiftIsNaN(n, i, -1))

\* int(len * (1 - self.test_size)): the product is never negative, so int()
\* is the floor
split_idx(len) == (len * (TestSizeDen - TestSizeNum)) \div TestSizeDen

\* table[:k]
SliceTo(table, k) == SubSeq(table, 1, k)

\* the test part starts on the last training row
SliceFrom_Overlap(table, k) == SubSeq(table, k, Len(table))

\* table[k:]
SliceFrom(table, k) == SubSeq(table, k + 1, Len(table))

\* prepare_ml_data: X and y keep the same rows; the target of row i is the
\* close of row i + 1
prepare_ml_data(n) ==
    LET X == ml_rows(n)
        idx == split_idx(Len(X))
    IN  [kind |-> "features", rows |-> X,
         train |-> SliceTo(X, idx), test |-> SliceFrom(X, idx),
         y_test |-> [j \in 1..Len(SliceFrom(X, idx)) |-> SliceFrom(X, idx)[j] + 1]]

\* the split of train_arima: lines 91-95; test_data are the closes themselves
arima_split(n) ==
    LET data == Range(0, n)
        idx == split_idx(Len(data))
    IN  [kind |-> "closes", rows |-> data,
         train |-> SliceTo(data, idx), test |-> SliceFrom(data, idx),
         y_test |-> SliceFrom(data, idx)]

\* the split the training function of a candidate makes
CandidateSplit(model_name, n) ==
    IF model_name = "ARIMA" THEN arima_split(n) ELSE prepare_ml_data(n)

(***************************************************************************)
(* data_loader.py: DataLoader.prepare_features                             *)
(* closes is the Close column, row i (0-based) is closes[i + 1].  A cell   *)
(* of the feature table is a double; a row is its label and its cells in   *)
(* column order: Close, lag_1 .. lag_n, rolling_mean_7, rolling_std_7,     *)
(* price_change.                                                           *)
(***************************************************************************)
\* rolling(window=7)
RollWindow == 7

NaN == [n |-> 0, d |-> 0, np |-> TRUE]

\* df['Close'].shift(k) at row i
Shifted(closes, i, k) ==
    IF i - k < 0 \/ i - k > Len(closes) - 1 THEN NaN ELSE NpNum(closes[i - k + 1])

\* the sum of f over rows lo .. hi
RECURSIVE SumRows(_, _, _)
SumRows(f, lo, hi) == IF hi < lo THEN 0 ELSE f[hi + 1] + SumRows(f, lo, hi - 1)

\* the window is taken to be full one row too late
RollingFull_Late(i) == i >= RollWindow

\* rolling(window=7) has a value at row i: rows i-6 .. i are all there
RollingFull(i) == i >= RollWindow - 1

\* rolling(window=7).mean() at row i
RollingMean(closes, i) ==
    IF ~RollingFull(i) THEN NaN
    ELSE Norm(SumRows(closes, i - RollWindow + 1, i), RollWindow, TRUE)

\* rolling(window=7).std() at row i, held as its square (the sample variance)
RollingStd(closes, i) ==
    IF ~RollingFull(i) THEN NaN
    ELSE LET sum == SumRows(closes, i - RollWindow + 1, i)
             squares == SumRows([j \in 1..Len(closes) |-> closes[j] * closes[j]],
                                i - RollWindow + 1, i)
         IN  Norm(RollWindow * squares - sum * sum,
                  RollWindow * (RollWindow - 1), TRUE)

\* pct_change() at row i: Close / Close.shift(1) - 1
PctChange(closes, i) == Sub(Div(Shifted(closes, i, 0), Shifted(closes, i, 1)), NpNum(1))

\* row i of df_processed before dropna
FeatureRow(closes, i, lag_periods) ==
    [label |-> i,
     cells |-> <<Shifted(closes, i, 0)>>
               \o [k \in 1..lag_periods |-> Shifted(closes, i, k)]
               \o <<RollingMean(closes, i), RollingStd(closes, i),
                    PctChange(closes, i)>>]

\* prepare_features: dropna keeps the rows without a NaN cell
prepare_features(closes, lag_periods) ==
    SelectSeq([r \in 1..Len(closes) |-> FeatureRow(closes, r - 1, lag_periods)],
              LAMBDA row : \A c \in 1..Len(row.cells) : ~IsNaN(row.cells[c]))

(***************************************************************************)
(* forecaster.py: Forecaster                                               *)
(***************************************************************************)
NumLags == 30

\* how forecast() reads type(self.model).__name__.lower()
ModelKind(model) ==
    CASE model = "None"                  -> "none"
      [] model = "ARIMAResultsWrapper"   -> "statsmodels"
      [] model = "RandomForestRegressor" -> "sklearn"
      [] model = "Ridge"                 -> "sklearn"
      [] model = "LinearRegression"      -> "sklearn"
      [] OTHER                           -> "other"

\* [self.current_price] * days
FlatForecast(current_price, days) == [i \in 1..days |-> current_price]

\* _get_last_features: lag_i of the last row is the close i rows before it
get_last_features(closes) ==
    [i \in 1..NumLags |-> closes[Len(closes) - i]]

\* the loop runs upwards, for i in range(1, 30): lag_1 is copied into every lag
ShiftLoop_Ascending(features, i) ==
    [k \in 1..Len(features) |-> IF k <= i + 1 THEN features[1] ELSE features[k]]

\* for i in range(29, 0, -1): new_features[i] = new_features[i-1]
RECURSIVE ShiftLoop(_, _)
ShiftLoop(features, i) ==
    IF i < 1 THEN features
    ELSE ShiftLoop([features EXCEPT ![i + 1] = features[i]], i - 1)

\* _update_features
update_features(current_features, new_price) ==
    [ShiftLoop(current_features, NumLags - 1) EXCEPT ![1] = new_price]

\* the array passed to _update_features, after the call: new_features is a
\* copy, and the loop and the store of new_price write to the copy only
argument_after_update(current_features, new_price) == current_features

\* the predictions made before the failure are kept
RecursiveFailure_KeepPredictions(forecast, current_price, days) ==
    [i \in 1..days |-> IF i <= Len(forecast) THEN forecast[i] ELSE current_price]

\* the except clause of _recursive_forecast_ml: line 57
RecursiveFailure(forecast, current_price, days) ==
    FlatForecast(current_price, days)

(***************************************************************************)
(* Bounds and input sets                                                   *)
(***************************************************************************)
\* longest forecast path drawn from PriceSet
MaxDays == 7

\* largest window passed to find_local_extrema
MaxWindow == 3

\* largest day of a point or signal passed in directly
MaxPointDay == 1

\* longest list of points or signals passed in directly
MaxListLen == 2

\* number of places where a strictly increasing 30-day path skips a price
IncSlack == 2

\* days a slump path moves freely, days it then stays low, and its highest price
SlumpHead == 5

SlumpTail == 5

SlumpTop == 4

\* main.py asks the forecaster for 30 days
Horizon == 30

\* largest RMSE a fitted candidate scores
MaxRmse == 2

\* the series the trainer is given has MinRows .. MinRows + MaxExtraRows closes
MaxExtraRows == 5

\* longest horizon asked of the forecaster
MaxH == 3

\* number of price histories the forecaster is built on
MaxHistories == 2

PriceSet == {0, 1, 2}

AmountSet == {0, 1000}

PositivePrices == {1, 2}

PositiveAmounts == {1, 1000}

SeqsUpTo(S, n) == UNION {[1..k -> S] : k \in 0..n}

\* the flat path and the seven-day path of the documented scenarios
FlatPath == [i \in 1..Horizon |-> 100]

ZigZagPath == <<100, 90, 80, 90, 100, 90, 80>>

\* strictly increasing 30-day paths: day i has price i + base + the number of
\* skips at or before it
IncreasingPaths ==
    {[i \in 1..Horizon |->
        i + Cardinality({k \in 1..IncSlack : skip[k] < i})] :
     skip \in [1..IncSlack -> 0..Horizon]}

\* paths that move freely over 1 .. SlumpTop for SlumpHead days and then stay
\* at the lowest price for SlumpTail days
SlumpPaths ==
    {head \o [i \in 1..SlumpTail |-> 1] : head \in [1..SlumpHead -> 1..SlumpTop]}

\* a 15-day path that falls from 9 to 1 with two short recoveries
DeclinePath == <<9, 9, 9, 5, 8, 7, 6, 4, 3, 2, 1, 3, 1, 1, 1>>

Paths == SeqsUpTo(PriceSet, MaxDays) \cup {FlatPath, ZigZagPath} \cup IncreasingPaths

PointSet == (0..MaxPointDay) \X PositivePrices

SignalSet == {"buy", "sell"} \X (0..MaxPointDay) \X PositivePrices

\* what a training function can do: raise inside its try block, or fit and
\* score a finite or infinite RMSE (np.sqrt gives a numpy scalar)
Outcomes ==
    {[ok |-> FALSE, rmse |-> Inf]}
    \cup {[ok |-> TRUE, rmse |-> NpNum(r)] : r \in 0..MaxRmse}
    \cup {[ok |-> TRUE, rmse |-> [n |-> 1, d |-> 0, np |-> TRUE]]}

\* the last NumLags + 1 closes of historical_data
Histories == {[j \in 1..(NumLags + 1) |-> 10 * a + j] : a \in 1..MaxHistories}

\* prices a model predicts
Predictions == {1, 2}

\* longest series passed to prepare_features
MaxSeriesLen == 16

\* largest lag_periods passed to prepare_features
MaxLag == 8

\* most closes of a series that are zero
MaxZeros == 2

\* NaN-free series of closes: close i is 10 + i, or zero at a few places
CloseSeries ==
    UNION {{[i \in 1..len |-> IF i \in zeros THEN 0 ELSE 10 + i] :
            zeros \in {z \in SUBSET (1..len) : Cardinality(z) <= MaxZeros}} :
           len \in 1..MaxSeriesLen}

\* len(self.df)
RowCounts == MinRows..(MinRows + MaxExtraRows)

ModelSet == {"None", "RandomForestRegressor", "Ridge", "ARIMAResultsWrapper",
             "LinearRegression", "Other"}

(***************************************************************************)
(* State                                                                   *)
(***************************************************************************)
VARIABLES
    \* InvestmentStrategist: the object's fields, and whether the elements of
    \* forecast_prices are numpy scalars
    forecast_prices, investment_amount, price_np,
    \* the position in the method in progress, and which method the caller
    \* invoked ("direct": the method itself, "recommend": generate_recommendations)
    pc, caller,
    \* arguments, locals and results of the strategist methods
    window, buy_points, sell_points, todo, sig_st, signals,
    sig_np, psigs, pst, processed, result

VARIABLES
    \* ModelTrainer.train_and_select_best: position, index of the next candidate,
    \* the locals best_*, what each training function did, the returned triple,
    \* len(self.df), the train/test split each training function made
    t_pc, t_idx, t_st, t_outcomes, t_result, t_n, t_splits

VARIABLES
    \* Forecaster: self.model, the closes, self.current_price; forecast(days):
    \* position, days, the forecast list and the feature vector of the loop, the
    \* step at which a prediction failed (0: none), the returned path, the
    \* array last passed to _update_features as it is after the call
    f_pc, f_model, f_closes, current_price, f_days, forecast, current_features,
    f_failed_at, f_result, old_features

VARIABLES
    \* DataLoader.prepare_features(df, lag_periods): position, the Close column
    \* of df, lag_periods, the returned table
    d_pc, d_closes, d_lag, d_table

dvars == <<d_pc, d_closes, d_lag, d_table>>

tvars == <<t_pc, t_idx, t_st, t_outcomes, t_result, t_n, t_splits>>

fvars == <<f_pc, f_model, f_closes, current_price, f_days, forecast,
           current_features, f_failed_at, f_result, old_features>>

svars == <<forecast_prices, investment_amount, price_np, pc, caller, window,
           buy_points, sell_points, todo, sig_st, signals, sig_np, psigs, pst,
           processed, result>>

NoResult == [raised |-> FALSE, path |-> "none", text |-> "none", info |-> NoInfo]

\* the strategist after __init__(forecast_prices, investment_amount)
StrategistInit(paths, amounts) ==
    /\ forecast_prices \in paths
    /\ investment_amount \in amounts
    /\ price_np \in BOOLEAN
    /\ pc = "init"
    /\ caller = "direct"
    /\ window = DefaultWindow
    /\ buy_points = <<>>
    /\ sell_points = <<>>
    /\ todo = <<>>
    /\ sig_st = SignalInit
    /\ signals = <<>>
    /\ sig_np = TRUE
    /\ psigs = <<>>
    /\ pst = ProfitInit(0)
    /\ processed = 0
    /\ result = NoResult

(***************************************************************************)
(* Strategist operations                                                   *)
(***************************************************************************)
\* generate_recommendations returns the fallback, from the try block or from
\* the except clause.  The fallback called in the try block raises into the
\* except clause, which calls it once more outside any handler: a fallback
\* that raises leaves generate_recommendations with the exception.
ReturnFallback ==
    /\ result' = generate_fallback_recommendations(forecast_prices, price_np,
                                                   investment_amount)
    /\ pc' = IF result'.raised THEN "raised" ELSE "recommended"

\* generate_trading_signals(bp, sp) up to the loop: lines 33-38
StartSignals(bp, sp) ==
    /\ todo' = SortByDay(bp \o sp)
    /\ sig_st' = SignalInit
    /\ pc' = "signals_loop"

\* calculate_profit(sigs) up to the loop: lines 57-62
StartProfit(sigs, isnp) ==
    /\ sig_np' = isnp
    /\ psigs' = sigs
    /\ processed' = 0
    /\ pst' = ProfitInit(investment_amount)
    /\ pc' = IF sigs = <<>> THEN "no_signals" ELSE "profit_loop"

\* find_local_extrema(window=w)
CallFindLocalExtrema ==
    /\ pc = "init"
    /\ \E w \in 1..MaxWindow :
        LET ex == find_local_extrema(forecast_prices, w) IN
        /\ window' = w
        /\ buy_points' = ex.buy_points
        /\ sell_points' = ex.sell_points
    /\ pc' = "extrema"
    /\ UNCHANGED <<tvars, fvars, dvars>>
    /\ UNCHANGED <<forecast_prices, investment_amount, price_np, caller, todo,
                   sig_st, signals, sig_np, psigs, pst, processed, result>>

\* generate_trading_signals on the points find_local_extrema returned
CallGenerateTradingSignals ==
    /\ pc = "extrema"
    /\ StartSignals(buy_points, sell_points)
    /\ UNCHANGED <<tvars, fvars, dvars>>
    /\ UNCHANGED <<forecast_prices, investment_amount, price_np, caller, window,
                   buy_points, sell_points, signals, sig_np, psigs, pst,
                   processed, result>>

\* generate_trading_signals on any two lists of points
CallGenerateTradingSignalsWith ==
    /\ pc = "init"
    /\ \E bp \in SeqsUpTo(PointSet, MaxListLen), sp \in SeqsUpTo(PointSet, MaxListLen) :
        /\ buy_points' = bp
        /\ sell_points' = sp
        /\ StartSignals(bp, sp)
    /\ UNCHANGED <<tvars, fvars, dvars>>
    /\ UNCHANGED <<forecast_prices, investment_amount, price_np, caller, window,
                   signals, sig_np, psigs, pst, processed, result>>

\* one iteration of the loop of generate_trading_signals
SignalsIterate ==
    /\ pc = "signals_loop"
    /\ todo # <<>>
    /\ sig_st' = SignalStep(sig_st, Head(todo), buy_points, sell_points)
    /\ todo' = Tail(todo)
    /\ UNCHANGED <<tvars, fvars, dvars>>
    /\ UNCHANGED <<forecast_prices, investment_amount, price_np, pc, caller,
                   window, buy_points, sell_points, signals, sig_np, psigs, pst,
                   processed, result>>

\* generate_trading_signals returns; generate_recommendations goes on with
\* lines 107-111
SignalsReturn ==
    /\ pc = "signals_loop"
    /\ todo = <<>>
    /\ signals' = sig_st.signals
    /\ IF caller = "direct"
       THEN /\ pc' = "signals"
            /\ UNCHANGED <<sig_np, psigs, pst, processed, result>>
       ELSE IF sig_st.signals = <<>>
       THEN /\ ReturnFallback
            /\ UNCHANGED <<sig_np, psigs, pst, processed>>
       ELSE /\ StartProfit(sig_st.signals, TRUE)
            /\ UNCHANGED result
    /\ UNCHANGED <<tvars, fvars, dvars>>
    /\ UNCHANGED <<forecast_prices, investment_amount, price_np, caller, window,
                   buy_points, sell_points, todo, sig_st>>

\* calculate_profit on the signals generate_trading_signals returned
CallCalculateProfit ==
    /\ pc = "signals"
    /\ StartProfit(signals, TRUE)
    /\ UNCHANGED <<tvars, fvars, dvars>>
    /\ UNCHANGED <<forecast_prices, investment_amount, price_np, caller, window,
                   buy_points, sell_points, todo, sig_st, signals, result>>

\* calculate_profit on any signal list
CallCalculateProfitWith ==
    /\ pc = "init"
    /\ \E sigs \in SeqsUpTo(SignalSet, MaxListLen), isnp \in BOOLEAN :
        /\ signals' = sigs
        /\ StartProfit(sigs, isnp)
    /\ UNCHANGED <<tvars, fvars, dvars>>
    /\ UNCHANGED <<forecast_prices, investment_amount, price_np, caller, window,
                   buy_points, sell_points, todo, sig_st, result>>

\* one iteration of the loop of calculate_profit; an exception is caught by
\* generate_recommendations
ProfitIterate ==
    /\ pc = "profit_loop"
    /\ psigs # <<>>
    /\ LET st == ProfitStep(pst, Head(psigs), sig_np) IN
        /\ pst' = st
        /\ IF ~st.raised THEN UNCHANGED <<pc, result>>
           ELSE IF caller = "direct" THEN pc' = "raised" /\ UNCHANGED result
           ELSE ReturnFallback
    /\ psigs' = Tail(psigs)
    /\ processed' = processed + 1
    /\ UNCHANGED <<tvars, fvars, dvars>>
    /\ UNCHANGED <<forecast_prices, investment_amount, price_np, caller, window,
                   buy_points, sell_points, todo, sig_st, signals, sig_np>>

\* the final valuation and the return of calculate_profit: lines 76-94;
\* generate_recommendations returns its result: lines 113-116
ProfitReturn ==
    /\ pc = "profit_loop"
    /\ psigs = <<>>
    /\ LET st == ProfitFinal(pst, forecast_prices, price_np)
           r  == ProfitInfo(st.cash, st.transactions, investment_amount)
       IN  /\ pst' = st
           /\ IF ~(st.raised \/ r.raised)
              THEN /\ pc' = IF caller = "direct" THEN "profit_done" ELSE "recommended"
                   /\ result' = [raised |-> FALSE, path |-> "signals",
                                 text |-> IF caller = "direct" THEN "none"
                                          ELSE "trading_signals",
                                 info |-> r.info]
              ELSE IF caller = "direct" THEN pc' = "raised" /\ UNCHANGED result
              ELSE ReturnFallback
    /\ UNCHANGED <<tvars, fvars, dvars>>
    /\ UNCHANGED <<forecast_prices, investment_amount, price_np, caller, window,
                   buy_points, sell_points, todo, sig_st, signals, sig_np, psigs,
                   processed>>

\* generate_recommendations(): lines 98-105
CallGenerateRecommendations ==
    /\ pc = "init"
    /\ caller' = "recommend"
    /\ window' = DefaultWindow
    /\ LET ex == find_local_extrema(forecast_prices, DefaultWindow) IN
        /\ buy_points' = ex.buy_points
        /\ sell_points' = ex.sell_points
        /\ IF ex.buy_points = <<>> /\ ex.sell_points = <<>>
           THEN /\ ReturnFallback
                /\ UNCHANGED <<todo, sig_st>>
           ELSE /\ StartSignals(ex.buy_points, ex.sell_points)
                /\ UNCHANGED result
    /\ UNCHANGED <<tvars, fvars, dvars>>
    /\ UNCHANGED <<forecast_prices, investment_amount, price_np, signals, sig_np,
                   psigs, pst, processed>>

\* nothing returned yet
NoTrainResult == [model |-> "None", rmse |-> Inf, name |-> ""]

\* components that take no part in a specification stay as constructed
StrategistIdle == StrategistInit({<<>>}, {0}) /\ price_np = FALSE

TrainerStart ==
    /\ t_pc = "init"
    /\ t_idx = 1
    /\ t_st = TrainerInit
    /\ t_outcomes = <<>>
    /\ t_result = NoTrainResult
    /\ t_splits = <<>>

\* ModelTrainer(df) on a series of one of the given lengths
TrainerOn(rows) == TrainerStart /\ t_n \in rows

TrainerIdle == TrainerOn({MinRows})

\* Forecaster(model, historical_data)
ForecasterInit(models, histories) ==
    /\ f_model \in models
    /\ f_closes \in histories
    /\ current_price = f_closes[Len(f_closes)]
    /\ f_pc = "init"
    /\ f_days = 0
    /\ forecast = <<>>
    /\ current_features = <<>>
    /\ f_failed_at = 0
    /\ f_result = <<>>
    /\ old_features = <<>>

ForecasterIdle == ForecasterInit({"None"}, {<<0>>})

(***************************************************************************)
(* Trainer operations                                                      *)
(***************************************************************************)
\* train_and_select_best up to the loop: lines 136-147
CallTrainAndSelectBest ==
    /\ t_pc = "init"
    /\ t_pc' = "loop"
    /\ t_st' = TrainerInit
    /\ UNCHANGED <<t_idx, t_outcomes, t_result, t_n, t_splits>>
    /\ UNCHANGED <<svars, fvars, dvars>>

\* one candidate is trained and compared
TrainCandidate ==
    /\ t_pc = "loop"
    /\ t_idx <= Len(models_to_train)
    /\ \E outcome \in Outcomes :
        /\ t_st' = TrainerStep(t_st, models_to_train[t_idx],
                               TrainReturn(models_to_train[t_idx], outcome))
        /\ t_outcomes' = Append(t_outcomes, outcome)
    /\ t_splits' = Append(t_splits, CandidateSplit(models_to_train[t_idx], t_n))
    /\ t_idx' = t_idx + 1
    /\ UNCHANGED <<t_pc, t_result, t_n>>
    /\ UNCHANGED <<svars, fvars, dvars>>

\* after the loop: lines 165-173
TrainReturnBest ==
    /\ t_pc = "loop"
    /\ t_idx > Len(models_to_train)
    /\ t_result' = TrainerFinish(t_st)
    /\ t_pc' = "done"
    /\ UNCHANGED <<t_idx, t_st, t_outcomes, t_n, t_splits>>
    /\ UNCHANGED <<svars, fvars, dvars>>

(***************************************************************************)
(* Forecaster operations                                                   *)
(***************************************************************************)
\* forecast(days): the dispatch of lines 16-37.  A statsmodels forecast returns
\* days prices or raises into the outer except clause.
CallForecast ==
    /\ f_pc = "init"
    /\ \E days \in 1..MaxH :
        /\ f_days' = days
        /\ CASE ModelKind(f_model) = "sklearn" ->
                  /\ f_pc' = "recursive_loop"
                  /\ forecast' = <<>>
                  /\ current_features' = get_last_features(f_closes)
                  /\ UNCHANGED f_result
             [] ModelKind(f_model) = "statsmodels" ->
                  /\ f_pc' = "done"
                  /\ \/ \E path \in [1..days -> Predictions] : f_result' = path
                     \/ f_result' = FlatForecast(current_price, days)
                  /\ UNCHANGED <<forecast, current_features>>
             [] OTHER ->
                  /\ f_pc' = "done"
                  /\ f_result' = FlatForecast(current_price, days)
                  /\ UNCHANGED <<forecast, current_features>>
    /\ UNCHANGED <<f_model, f_closes, current_price, f_failed_at, old_features>>
    /\ UNCHANGED <<svars, tvars, dvars>>

\* one iteration of the loop of _recursive_forecast_ml: the model predicts
PredictStep ==
    /\ f_pc = "recursive_loop"
    /\ Len(forecast) < f_days
    /\ \E next_price \in Predictions :
        /\ forecast' = Append(forecast, next_price)
        /\ current_features' = update_features(current_features, next_price)
        /\ old_features' = argument_after_update(current_features, next_price)
    /\ UNCHANGED <<f_pc, f_model, f_closes, current_price, f_days, f_failed_at,
                   f_result>>
    /\ UNCHANGED <<svars, tvars, dvars>>

\* one iteration of the loop of _recursive_forecast_ml: the prediction raises
PredictFail ==
    /\ f_pc = "recursive_loop"
    /\ Len(forecast) < f_days
    /\ f_failed_at' = Len(forecast) + 1
    /\ f_result' = RecursiveFailure(forecast, current_price, f_days)
    /\ f_pc' = "done"
    /\ UNCHANGED <<f_model, f_closes, current_price, f_days, forecast,
                   current_features, old_features>>
    /\ UNCHANGED <<svars, tvars, dvars>>

\* return forecast
RecursiveReturn ==
    /\ f_pc = "recursive_loop"
    /\ Len(forecast) = f_days
    /\ f_result' = forecast
    /\ f_pc' = "done"
    /\ UNCHANGED <<f_model, f_closes, current_price, f_days, forecast,
                   current_features, f_failed_at, old_features>>
    /\ UNCHANGED <<svars, tvars, dvars>>

\* a DataLoader about to be asked for the features of one of the given series
LoaderInit(series) ==
    /\ d_closes \in series
    /\ d_pc = "init"
    /\ d_lag = NumLags
    /\ d_table = <<>>

LoaderIdle == LoaderInit({<<>>})

(***************************************************************************)
(* Data loader operations                                                  *)
(***************************************************************************)
\* prepare_features(df, lag_periods)
CallPrepareFeatures ==
    /\ d_pc = "init"
    /\ \E lag_periods \in 1..MaxLag :
        /\ d_lag' = lag_periods
        /\ d_table' = prepare_features(d_closes, lag_periods)
    /\ d_pc' = "done"
    /\ UNCHANGED d_closes
    /\ UNCHANGED <<svars, tvars, fvars>>

vars == <<svars, tvars, fvars, dvars>>

\* the strategist driven through its methods on one forecast path
Init ==
    StrategistInit(Paths, AmountSet) /\ TrainerIdle /\ ForecasterIdle /\ LoaderIdle

Next ==
    \/ CallFindLocalExtrema
    \/ CallGenerateTradingSignals
    \/ SignalsIterate
    \/ SignalsReturn
    \/ CallCalculateProfit
    \/ ProfitIterate
    \/ ProfitReturn
    \/ CallGenerateRecommendations

Spec == Init /\ [][Next]_vars

\* the strategist driven through its methods on a falling path
InitRoundTrips ==
    /\ StrategistInit(SlumpPaths \cup {DeclinePath}, {1000})
    /\ TrainerIdle
    /\ ForecasterIdle
    /\ LoaderIdle

SpecRoundTrips == InitRoundTrips /\ [][Next]_vars

\* generate_trading_signals called on any two lists of points
InitSignals ==
    /\ StrategistInit({ZigZagPath}, {1000})
    /\ TrainerIdle
    /\ ForecasterIdle
    /\ LoaderIdle

NextSignals ==
    \/ CallGenerateTradingSignalsWith
    \/ SignalsIterate
    \/ SignalsReturn

SpecSignals == InitSignals /\ [][NextSignals]_vars

\* calculate_profit called on any signal list, positive prices and amounts
InitProfit ==
    /\ StrategistInit(SeqsUpTo(PositivePrices, MaxListLen), PositiveAmounts)
    /\ TrainerIdle
    /\ ForecasterIdle
    /\ LoaderIdle

NextProfit ==
    \/ CallCalculateProfitWith
    \/ ProfitIterate
    \/ ProfitReturn

SpecProfit == InitProfit /\ [][NextProfit]_vars

\* train_and_select_best on any outcomes of the four training functions
InitTrainer ==
    StrategistIdle /\ TrainerOn(RowCounts) /\ ForecasterIdle /\ LoaderIdle

NextTrainer ==
    \/ CallTrainAndSelectBest
    \/ TrainCandidate
    \/ TrainReturnBest

SpecTrainer == InitTrainer /\ [][NextTrainer]_vars

\* forecast(days) on any model
InitForecaster ==
    /\ StrategistIdle
    /\ TrainerIdle
    /\ ForecasterInit(ModelSet, Histories)
    /\ LoaderIdle

NextForecaster ==
    \/ CallForecast
    \/ PredictStep
    \/ PredictFail
    \/ RecursiveReturn

SpecForecaster == InitForecaster /\ [][NextForecaster]_vars

\* prepare_features on any series and lag window
InitFeatures ==
    StrategistIdle /\ TrainerIdle /\ ForecasterIdle /\ LoaderInit(CloseSeries)

NextFeatures == CallPrepareFeatures

SpecFeatures == InitFeatures /\ [][NextFeatures]_vars

(***************************************************************************)
(* Properties                                                              *)
(***************************************************************************)
Xor(a, b) == (a \/ b) /\ ~(a /\ b)

SameValue(x, n, d) == x.n = n /\ x.d = d

\* the signals emitted so far by the loop of generate_trading_signals
Emitted == sig_st.signals

Alternates(s) ==
    /\ s # <<>> => s[1][1] = "buy"
    /\ \A k \in 1..(Len(s) - 1) : s[k][1] # s[k + 1][1]

\* C1: whatever lists of buy points and sell points generate_trading_signals is
\* given, the signals it has emitted, at every iteration and at its return, are
\* empty or start with a buy, and no two consecutive signals share an action.
C1_SignalsAlternate ==
    /\ pc = "signals_loop" => Alternates(Emitted)
    /\ pc = "signals" => Alternates(signals)

\* C1 witness: a returned sequence buy, sell, buy, with a point that was ignored
C1_Witness ==
    /\ pc = "signals"
    /\ Len(signals) >= 3
    /\ Len(signals) < Len(buy_points) + Len(sell_points)

\* C2 (as claimed): in calculate_profit, before any signal is processed shares
\* is 0 and cash is the investment amount; after every processed signal and
\* after the final liquidation exactly one of cash and shares is zero.
C2_CashXorShares ==
    /\ (pc = "profit_loop" /\ processed = 0) =>
          (IsZero(pst.shares) /\ pst.cash = PyNum(investment_amount))
    /\ (pc = "profit_loop" /\ processed >= 1) =>
          Xor(IsZero(pst.cash), IsZero(pst.shares))
    /\ pc = "profit_done" => Xor(IsZero(pst.cash), IsZero(pst.shares))

\* C6 (as claimed): generate_recommendations never leaves with an exception.
C6_NeverPropagates == caller = "recommend" => pc # "raised"

FlatDays == [k \in 1..(Horizon - 2 * DefaultWindow) |-> <<k + DefaultWindow - 1, 100>>]

\* C7 (as claimed): on 30 equal prices of 100 generate_recommendations finds no
\* turning point and returns the buy-and-hold fallback with profit 0.
C7_FlatTakesFallback ==
    (forecast_prices = FlatPath /\ caller = "recommend") =>
        /\ buy_points = <<>>
        /\ sell_points = <<>>
        /\ pc = "recommended" =>
              /\ result.path = "fallback"
              /\ result.text = "buy_and_hold"
              /\ IsZero(result.info.profit)

\* C7 (amended): on 30 equal prices of 100 and a nonzero investment, every day
\* 3..26 is found both as a minimum and as a maximum, generate_recommendations
\* does not take the fallback: it trades on the signals buy, sell at every one
\* of these days, at price 100, and reports profit 0.
C7_FlatTradesAtPar ==
    (forecast_prices = FlatPath /\ caller = "recommend" /\ investment_amount # 0) =>
        /\ buy_points = FlatDays
        /\ sell_points = FlatDays
        /\ pc # "raised"
        /\ pc = "recommended" =>
              /\ result.path = "signals"
              /\ result.text = "trading_signals"
              /\ Len(signals) = 2 * Len(FlatDays)
              /\ Len(result.info.transactions) = 2 * Len(FlatDays)
              /\ IsZero(result.info.profit)

C7_Witness ==
    /\ forecast_prices = FlatPath
    /\ caller = "recommend"
    /\ investment_amount # 0
    /\ pc = "recommended"

\* C8 (as claimed): on 100, 90, 80, 90, 100, 90, 80 with window 1 the minima
\* found are day 2 and day 6 (price 80) and the maximum is day 4 (price 100).
C8_ZigZagThreePoints ==
    (forecast_prices = ZigZagPath /\ pc = "extrema" /\ window = 1) =>
        /\ buy_points = << <<2, 80>>, <<6, 80>> >>
        /\ sell_points = << <<4, 100>> >>

\* C8 (amended): on 100, 90, 80, 90, 100, 90, 80 with window 1 exactly one minimum
\* is found, day 2 (price 80), and exactly one maximum, day 4 (price 100); day 6,
\* the last day, is not examined.
C8_ZigZagTwoPoints ==
    (forecast_prices = ZigZagPath /\ pc = "extrema" /\ window = 1) =>
        /\ buy_points = << <<2, 80>> >>
        /\ sell_points = << <<4, 100>> >>

C8_Witness == forecast_prices = ZigZagPath /\ pc = "extrema" /\ window = 1

ZigZagCase ==
    /\ forecast_prices = ZigZagPath
    /\ investment_amount = 1000
    /\ caller = "direct"
    /\ window = 1

\* C9: on 100, 90, 80, 90, 100, 90, 80 with window 1 and investment 1000 the
\* signals are buy at day 2, sell at day 4; calculate_profit buys 12.5 shares at
\* 80, sells them at 100, and returns final value 1250, profit 250, 25 percent,
\* with these two transactions only.
C9_ZigZagProfit ==
    ZigZagCase =>
        /\ pc \notin {"raised", "no_signals"}
        /\ pc \in {"signals", "profit_loop", "profit_done"} =>
              signals = << <<"buy", 2, 80>>, <<"sell", 4, 100>> >>
        /\ (pc = "profit_loop" /\ processed = 1) =>
              (SameValue(pst.shares, 25, 2) /\ IsZero(pst.cash))
        /\ (pc = "profit_loop" /\ processed = 2) =>
              (SameValue(pst.cash, 1250, 1) /\ IsZero(pst.shares))
        /\ pc = "profit_done" =>
              /\ SameValue(result.info.final_value, 1250, 1)
              /\ SameValue(result.info.profit, 250, 1)
              /\ SameValue(result.info.profit_percent, 25, 1)
              /\ result.info.transactions =
                    << [op |-> "buy", day |-> 2, price |-> 80],
                       [op |-> "sell", day |-> 4, price |-> 100] >>

C9_Witness == ZigZagCase /\ pc = "profit_done"

BuyAndHold(r) ==
    /\ r.path = "fallback"
    /\ r.text = "buy_and_hold"
    /\ r.info.transactions =
          << [op |-> "buy", day |-> 0, price |-> forecast_prices[1]],
             [op |-> "sell", day |-> Len(forecast_prices),
              price |-> forecast_prices[Len(forecast_prices)]] >>
    /\ LET v == Mul(Div(PyNum(investment_amount), Num(forecast_prices[1], price_np)),
                    Num(forecast_prices[Len(forecast_prices)], price_np))
       IN  SameValue(r.info.final_value, v.n, v.d)

\* C10 (as claimed): when generate_recommendations finds neither a minimum nor a
\* maximum, or generates no signal, it returns the buy-and-hold simulation: two
\* transactions, buy at forecast[0] and sell at forecast[H-1], final value
\* amount / forecast[0] * forecast[H-1]; every strictly increasing 30-day path
\* ends this way.
C10_FallbackIsBuyAndHold ==
    /\ ( /\ caller = "recommend"
         /\ pc \in {"recommended", "raised"}
         /\ (buy_points = <<>> /\ sell_points = <<>>) \/ signals = <<>> )
       => (pc = "recommended" /\ BuyAndHold(result))
    /\ ( /\ caller = "recommend"
         /\ forecast_prices \in IncreasingPaths )
       => (pc = "recommended" /\ BuyAndHold(result))

\* the candidates that fitted and predicted, with a finite RMSE
Scored == {i \in 1..Len(t_outcomes) : t_outcomes[i].ok /\ IsFinite(t_outcomes[i].rmse)}

\* the candidate of lowest RMSE, the earliest in training order among equals
Lowest(candidates) ==
    CHOOSE i \in candidates :
        \A j \in candidates :
            \/ NumLt(t_outcomes[i].rmse, t_outcomes[j].rmse)
            \/ (NumEq(t_outcomes[i].rmse, t_outcomes[j].rmse) /\ i <= j)

\* C3 (as claimed): train_and_select_best returns, among the four candidates
\* that fitted and predicted, the one of lowest finite RMSE, with that RMSE and
\* its name; among equal RMSEs the earliest in training order.
C3_LowestOfFour ==
    (t_pc = "done" /\ Scored # {}) =>
        LET i == Lowest(Scored) IN
        /\ t_result.model = ModelClass(models_to_train[i])
        /\ NumEq(t_result.rmse, t_outcomes[i].rmse)
        /\ t_result.name = models_to_train[i]

AllFailed ==
    /\ Len(t_outcomes) = Len(models_to_train)
    /\ \A i \in 1..Len(t_outcomes) : ~t_outcomes[i].ok

\* C4: when all four training functions fail, train_and_select_best comes to
\* its return statement and returns no model, RMSE +infinity and the name
\* 'Persistence'.
C4_AllFailPersistence ==
    AllFailed =>
        /\ t_pc \in {"loop", "done"}
        /\ t_pc = "done" =>
              /\ t_result.model = "None"
              /\ IsInf(t_result.rmse) /\ GtZero(t_result.rmse)
              /\ t_result.name = "Persistence"

C4_Witness == AllFailed /\ t_pc = "done"

\* C5 (as claimed): when the prediction of step k fails, forecast returns H
\* prices: the k-1 predictions already made, then currentPrice from k to H.
C5_KeepsPredictions ==
    (f_pc = "done" /\ f_failed_at >= 1) =>
        /\ Len(f_result) = f_days
        /\ \A i \in 1..f_days :
              f_result[i] = IF i < f_failed_at THEN forecast[i] ELSE current_price

\* C5 (amended): when the prediction of step k fails, forecast does not raise
\* and returns H prices all equal to currentPrice: the k-1 predictions already
\* made are dropped.
C5_FlatOnFailure ==
    /\ f_pc \in {"init", "recursive_loop", "done"}
    /\ (f_pc = "done" /\ f_failed_at >= 1) =>
          /\ Len(f_result) = f_days
          /\ \A i \in 1..f_days : f_result[i] = current_price

\* a failure after two predictions that differ from currentPrice
C5_Witness ==
    /\ f_pc = "done"
    /\ f_failed_at >= 3
    /\ f_failed_at <= f_days
    /\ \A i \in 1..Len(forecast) : forecast[i] # current_price

\* the rows of a table, as a set
Rows(table) == {table[k] : k \in 1..Len(table)}

\* train and test partition the rows of the table, and train precedes test
Chronological(split) ==
    /\ Rows(split.train) \cap Rows(split.test) = {}
    /\ Rows(split.train) \cup Rows(split.test) = Rows(split.rows)
    /\ Len(split.train) + Len(split.test) = Len(split.rows)
    /\ \A a \in Rows(split.train) : \A b \in Rows(split.test) : a < b

\* C11: in every train/test split a training function makes (the feature
\* table of prepare_ml_data, the raw closes of train_arima), train and test
\* are disjoint, together cover all rows of the table, and every test row
\* comes strictly after every train row.
C11_ChronologicalSplit ==
    \A k \in 1..Len(t_splits) : Chronological(t_splits[k])

\* all four candidates have split a series whose length is no multiple of 5,
\* and both kinds of split have rows on both sides
C11_Witness ==
    /\ t_pc = "done"
    /\ Len(t_splits) = Len(models_to_train)
    /\ t_n % TestSizeDen # 0
    /\ \E k \in 1..Len(t_splits) :
          /\ t_splits[k].kind = "features"
          /\ t_splits[k].train # <<>> /\ t_splits[k].test # <<>>
    /\ \E k \in 1..Len(t_splits) :
          /\ t_splits[k].kind = "closes"
          /\ t_splits[k].train # <<>> /\ t_splits[k].test # <<>>

Max(a, b) == IF a >= b THEN a ELSE b

\* every row of the table has the same number of columns
SameColumns(table) ==
    \A j, k \in 1..Len(table) : Len(table[j].cells) = Len(table[k].cells)

\* the series is long enough for the lag window and the rolling window
LongEnough == Len(d_closes) >= d_lag + RollWindow

\* no close and its predecessor are both zero (their ratio would be NaN)
NoZeroRun ==
    \A i \in 1..(Len(d_closes) - 1) : ~(d_closes[i] = 0 /\ d_closes[i + 1] = 0)

\* C12: for every lag window >= 1 and every NaN-free series of length
\* >= lagWindow + rollWindow, prepare_features emits exactly
\* len(series) - max(lagWindow, rollWindow) rows, each with the same number
\* of columns.
C12_RowsMaxLagRoll ==
    (d_pc = "done" /\ d_lag >= 1 /\ LongEnough) =>
        /\ Len(d_table) = Len(d_closes) - Max(d_lag, RollWindow)
        /\ SameColumns(d_table)

\* C12 as the code has it: the rolling window is full from row rollWindow - 1
\* on, so a series of that length without two consecutive zero closes gives
\* len(series) - max(lagWindow, rollWindow - 1) rows, the rows labelled
\* max(lagWindow, rollWindow - 1) .. len(series) - 1, each with
\* lagWindow + 4 columns.
C12_RowsFullWindows ==
    (d_pc = "done" /\ d_lag >= 1 /\ LongEnough /\ NoZeroRun) =>
        /\ Len(d_table) = Len(d_closes) - Max(d_lag, RollWindow - 1)
        /\ \A k \in 1..Len(d_table) :
              /\ d_table[k].label = Max(d_lag, RollWindow - 1) + k - 1
              /\ Len(d_table[k].cells) = d_lag + 4

\* a lag window shorter than the rolling window, on a series with a zero close
C12_Witness ==
    /\ d_pc = "done"
    /\ LongEnough
    /\ NoZeroRun
    /\ d_lag < RollWindow - 1
    /\ \E i \in 1..Len(d_closes) : d_closes[i] = 0
    /\ Len(d_table) > 1

\* the days a list of points reports
ReportedDays(points) == {points[k][1] : k \in 1..Len(points)}

\* day i carries its own price in the list, once, and the list is in day order
WellFormedPoints(points) ==
    /\ \A k \in 1..Len(points) :
          /\ points[k][1] \in 0..(Len(forecast_prices) - 1)
          /\ points[k][2] = forecast_prices[points[k][1] + 1]
    /\ \A j, k \in 1..Len(points) : j < k => points[j][1] < points[k][1]

\* W <= i < H - W
Examined(i) == window <= i /\ i < Len(forecast_prices) - window

\* the price of day i is <= the prices of the W days before and the W days after
NotAboveNeighbours(i) ==
    \A j \in 1..window :
        /\ forecast_prices[i + 1] <= forecast_prices[i - j + 1]
        /\ forecast_prices[i + 1] <= forecast_prices[i + j + 1]

NotBelowNeighbours(i) ==
    \A j \in 1..window :
        /\ forecast_prices[i + 1] >= forecast_prices[i - j + 1]
        /\ forecast_prices[i + 1] >= forecast_prices[i + j + 1]

\* C13: find_local_extrema(W) reports day i as a local minimum exactly when
\* W <= i < H-W and price[i] is <= every price in the W days before and the W
\* days after, and as a local maximum exactly when W <= i < H-W and the same
\* holds with >=; ties count, a day satisfying both is in both lists, and no
\* day outside W <= i < H-W is reported.
C13_ExtremaExactly ==
    pc # "init" =>
        /\ WellFormedPoints(buy_points)
        /\ WellFormedPoints(sell_points)
        /\ \A i \in ReportedDays(buy_points) \cup ReportedDays(sell_points) :
              Examined(i)
        /\ \A i \in 0..(Len(forecast_prices) - 1) :
              /\ i \in ReportedDays(buy_points)
                    <=> (Examined(i) /\ NotAboveNeighbours(i))
              /\ i \in ReportedDays(sell_points)
                    <=> (Examined(i) /\ NotBelowNeighbours(i))

\* one path shows a tie that is both a minimum and a maximum, a day that is a
\* minimum only, a day that is a maximum only, and an examined day that is
\* neither
C13_Witness ==
    /\ pc = "extrema"
    /\ \E i \in ReportedDays(buy_points) : i \in ReportedDays(sell_points)
    /\ \E i \in ReportedDays(buy_points) : i \notin ReportedDays(sell_points)
    /\ \E i \in ReportedDays(sell_points) : i \notin ReportedDays(buy_points)
    /\ \E i \in 0..(Len(forecast_prices) - 1) :
          /\ Examined(i)
          /\ i \notin ReportedDays(buy_points) \cup ReportedDays(sell_points)

\* a step of the recursive forecast has produced a prediction
ForecastStepped == Len(forecast') = Len(forecast) + 1

\* C14: after each recursive forecasting step the updated feature vector has
\* lag_1 equal to the just-produced prediction and lag_i equal to the previous
\* vector's lag_(i-1) for every i in 2..30 (the previous lag_30 is dropped);
\* every entry that is not a lag is left unchanged (the vector has the 30 lags
\* and nothing else), and the previous vector itself is not mutated.
C14_LagShift ==
    [][ForecastStepped =>
          /\ Len(current_features) = NumLags
          /\ Len(current_features') = NumLags
          /\ current_features'[1] = forecast'[Len(forecast')]
          /\ \A i \in 2..NumLags : current_features'[i] = current_features[i - 1]
          /\ old_features' = current_features]_vars

\* two steps have been made: the first prediction is now lag_2, the lag_1 of
\* the last row of the history lag_3, and the vector passed to the second step
\* still starts with the first prediction
C14_Witness ==
    /\ f_pc = "recursive_loop"
    /\ Len(forecast) = 2
    /\ forecast[1] # forecast[2]
    /\ current_features[1] = forecast[2]
    /\ current_features[2] = forecast[1]
    /\ current_features[3] = f_closes[Len(f_closes) - 1]
    /\ old_features[1] = forecast[1]

\* C15: all candidates compared by train_and_select_best are scored on the
\* same held-out observations: for every series of at least 100 closes, the
\* rows whose closes are the test targets of the feature-based candidates
\* (prepare_ml_data) are the test rows of the ARIMA candidate (train_arima).
C15_SameHeldOut ==
    t_n >= MinRows =>
        \A j, k \in 1..Len(t_splits) :
            (t_splits[j].kind = "features" /\ t_splits[k].kind = "closes") =>
                Rows(t_splits[j].y_test) = Rows(t_splits[k].y_test)

\* C16: for every forecast path of positive prices, in the signals that
\* generate_trading_signals makes of the points of find_local_extrema, the
\* price of each sell signal is at least the price of the buy signal just
\* before it: no completed round trip loses money.
C16_NoLosingRoundTrip ==
    (\A i \in 1..Len(forecast_prices) : forecast_prices[i] > 0) =>
        \A k \in 2..Len(Emitted) :
            Emitted[k][1] = "sell" => Emitted[k][3] >= Emitted[k - 1][3]

====
